---- MODULE Spec2Model ----
(***************************************************************************)
(* A model of nuit_info_scraper.py: the NuitInfoScraper object (its two    *)
(* mappings teams_data and challenges_data), the persisted file            *)
(* teams_data.json, the background passes of fetch_all_data started at     *)
(* process startup and by /api/refresh, and the read routes of the Flask   *)
(* application.                                                            *)
(*                                                                         *)
(* Text is modelled as a sequence of characters (one-character strings),   *)
(* so that the parsers and the validator inspect it as the code does.  A   *)
(* Python dict is modelled as the sequence of its items [k, v] in          *)
(* insertion order, which is the order Python iterates and json.dump       *)
(* writes.                                                                 *)
(***************************************************************************)
EXTENDS Naturals, Integers, Sequences, FiniteSets, TLC

(***************************************************************************)
(* Bounds of the model.                                                    *)
(***************************************************************************)
\* Background passes (threads running fetch_all_data) per process run.
MaxPasses == 2
\* Anchors on a listing page handed to the challenge-list parser.
MaxAnchors == 3
\* Team records handed to the aggregation loop when it is checked alone.
MaxRecords == 3
\* The clock reads 0..MaxTime where a function or one pass is checked on its
\* own, 0..MaxServerTime in the running server.
MaxTime == 1
MaxServerTime == 0
\* Anchors on the listing page served to a pass checked on its own.
MaxPassListed == 2
\* Teams of a mapping handed to get_leaderboard.
MaxTeams == 3
\* Entries of a mapping handed to save_to_json.
MaxStored == 2
\* Anchors on the listing page the running server is served.
MaxListed == 1
\* Anchors in the team container of a challenge page.
MaxItems == 2

(***************************************************************************)
(* Sequences and text.                                                     *)
(***************************************************************************)
Range(s) == {s[i] : i \in 1..Len(s)}

SeqsUpTo(S, n) == UNION {[1..k -> S] : k \in 0..n}

\* needle in hay, for two Python strings.
IsSubstring(needle, hay) ==
    \E i \in 0..Len(hay) :
        /\ i + Len(needle) <= Len(hay)
        /\ \A j \in 1..Len(needle) : hay[i + j] = needle[j]

UpperCase == <<"A","B","C","D","E","F","G","H","I","J","K","L","M",
               "N","O","P","Q","R","S","T","U","V","W","X","Y","Z">>
LowerCase == <<"a","b","c","d","e","f","g","h","i","j","k","l","m",
               "n","o","p","q","r","s","t","u","v","w","x","y","z">>

\* str.lower() of one character; E' and e' stand for the accented letter.
LowerChar(c) ==
    IF c = "E'" THEN "e'"
    ELSE IF \E i \in 1..26 : UpperCase[i] = c
         THEN LowerCase[CHOOSE i \in 1..26 : UpperCase[i] = c]
         ELSE c

lower(s) == [i \in 1..Len(s) |-> LowerChar(s[i])]

\* str.isupper() of a one-character string.
isupper(c) == c = "E'" \/ c \in Range(UpperCase)

isdigit_char(c) == c \in {"0","1","2","3","4","5","6","7","8","9"}

\* str.isdigit(): non-empty and every character a digit.
isdigit(s) == Len(s) > 0 /\ \A i \in 1..Len(s) : isdigit_char(s[i])

IsSpace(c) == c = " "

RECURSIVE lstrip(_)
lstrip(s) == IF Len(s) > 0 /\ IsSpace(s[1]) THEN lstrip(Tail(s)) ELSE s

RECURSIVE rstrip(_)
rstrip(s) ==
    IF Len(s) > 0 /\ IsSpace(s[Len(s)]) THEN rstrip(SubSeq(s, 1, Len(s) - 1)) ELSE s

\* get_text(strip=True) of an anchor holding one text node.
get_text_strip(s) == rstrip(lstrip(s))

\* s.split('/')[-1]: what follows the last '/' (all of s when it has none).
LastSegment(s) ==
    IF \E i \in 1..Len(s) : s[i] = "/"
    THEN LET last == CHOOSE i \in 1..Len(s) :
                        s[i] = "/" /\ \A j \in (i + 1)..Len(s) : s[j] # "/"
         IN  SubSeq(s, last + 1, Len(s))
    ELSE s

(***************************************************************************)
(* Python dicts: items in insertion order.                                 *)
(***************************************************************************)
EmptyDict == <<>>

DictKeys(d) == {d[i].k : i \in 1..Len(d)}

DictHas(d, key) == \E i \in 1..Len(d) : d[i].k = key

DictIndex(d, key) == CHOOSE i \in 1..Len(d) : d[i].k = key

DictGet(d, key) == d[DictIndex(d, key)].v

\* d[key] = val: a present key keeps its place, a new key goes last.
DictSet(d, key, val) ==
    IF DictHas(d, key)
    THEN [d EXCEPT ![DictIndex(d, key)] = [k |-> key, v |-> val]]
    ELSE Append(d, [k |-> key, v |-> val])

\* list(d.values())
DictValues(d) == [i \in 1..Len(d) |-> d[i].v]

\* No key twice: what every dict satisfies.
IsDict(d) == \A i, j \in 1..Len(d) : d[i].k = d[j].k => i = j

(***************************************************************************)
(* Text constants of the program.                                          *)
(***************************************************************************)
base_url == <<"h","t","t","p","s",":","/","/","w","w","w",".","n","u","i","t","d","e","l","i","n","f","o",".","c","o","m">>
DefisSegment == <<"/","i","n","s","c","r","i","p","t","i","o","n","/","d","e","f","i","s","/">>
UiLabels == {<<>>, <<"V","o","i","r">>, <<"D","e'","t","a","i","l","s">>, <<"V","o","i","r"," ","p","l","u","s">>}
junk_keywords ==
    <<<<"d","o","c","u","m","e","n","t">>,
      <<"d","i","s","c","o","r","d">>,
      <<"c","o","n","d","i","t","i","o","n","s">>,
      <<"i","n","s","c","r","i","p","t","i","o","n">>,
      <<"v","o","i","r">>,
      <<"d","e'","t","a","i","l","s">>,
      <<"p","l","u","s">>,
      <<"p","a","g","e">>,
      <<"d","e'","f","i">>,
      <<"c","h","a","l","l","e","n","g","e">>,
      <<"s","u","p","p","r","i","m","e","r">>,
      <<"m","o","d","i","f","i","e","r">>>>

\* urljoin(base_url, href) for a base with no path: an absolute reference
\* stands, a reference starting with '/' replaces the (empty) path, anything
\* else is merged after a '/'.
HttpsScheme == <<"h","t","t","p","s",":","/","/">>
StartsWith(s, prefix) ==
    Len(prefix) <= Len(s) /\ SubSeq(s, 1, Len(prefix)) = prefix
urljoin(base, href) ==
    IF href = <<>> THEN base
    ELSE IF StartsWith(href, HttpsScheme) THEN href
    ELSE IF href[1] = "/" THEN base \o href
    ELSE base \o <<"/">> \o href

(***************************************************************************)
(* fetch_challenges_list.  A response is [kind, anchors]: kind is "ok" for *)
(* status 200, "status" for any other status, "exception" for a timeout or *)
(* transport error; anchors are the <a> elements of the body in document   *)
(* order, each [has_href, href, text].                                     *)
(***************************************************************************)
\* Lines 33-37: the anchor is a challenge reference with a usable name.
Qualifies(a) ==
    /\ a.has_href
    /\ IsSubstring(DefisSegment, a.href)
    /\ isdigit(LastSegment(a.href))
    /\ get_text_strip(a.text) \notin UiLabels

\* Line 38: the challenge record of a qualifying anchor.
ChallengeOf(a) ==
    [id   |-> LastSegment(a.href),
     name |-> get_text_strip(a.text),
     url  |-> urljoin(base_url, a.href)]

\* Lines 30-38: the list challenges, in document order.
RECURSIVE CollectChallenges(_)
CollectChallenges(anchors) ==
    IF anchors = <<>> THEN <<>>
    ELSE LET rest == CollectChallenges(SubSeq(anchors, 1, Len(anchors) - 1))
             a    == anchors[Len(anchors)]
         IN  IF Qualifies(a) THEN Append(rest, ChallengeOf(a)) ELSE rest

\* ById keeping the first challenge of an id, not the last.
RECURSIVE ById_FirstWins(_)
ById_FirstWins(cs) ==
    IF cs = <<>> THEN EmptyDict
    ELSE LET c    == cs[Len(cs)]
             rest == ById_FirstWins(SubSeq(cs, 1, Len(cs) - 1))
         IN  IF DictHas(rest, c.id) THEN rest ELSE DictSet(rest, c.id, c)

\* {c['id']: c for c in challenges}
RECURSIVE ById(_)
ById(cs) ==
    IF cs = <<>> THEN EmptyDict
    ELSE LET c == cs[Len(cs)]
         IN  DictSet(ById(SubSeq(cs, 1, Len(cs) - 1)), c.id, c)

\* fetch_challenges_list without the status test of lines 26-28.
fetch_challenges_list_AnyStatus(resp) ==
    IF resp.kind = "exception" THEN <<>>
    ELSE DictValues(ById(CollectChallenges(resp.anchors)))

fetch_challenges_list(resp) ==
    IF resp.kind # "ok" THEN <<>>
    ELSE DictValues(ById(CollectChallenges(resp.anchors)))

(***************************************************************************)
(* is_valid_team_name and fetch_teams_for_challenge.  A response is        *)
(* [kind, container, items]: container says whether the list-group div is  *)
(* in the body, items are the <a> elements inside it, each [cls, text]     *)
(* with cls saying whether it carries the class list-group-item.           *)
(***************************************************************************)
is_valid_team_name(name) ==
    IF name = <<>> \/ Len(name) < 2 \/ Len(name) > 50 THEN FALSE
    ELSE IF \E i \in 1..Len(junk_keywords) :
               IsSubstring(junk_keywords[i], lower(name)) THEN FALSE
    ELSE IF ~isupper(name[1]) THEN FALSE
    ELSE TRUE

\* Lines 52-58: the set teams.
TeamNamesOf(resp) ==
    IF resp.container
    THEN {get_text_strip(resp.items[i].text) :
            i \in {j \in 1..Len(resp.items) :
                     /\ resp.items[j].cls
                     /\ is_valid_team_name(get_text_strip(resp.items[j].text))}}
    ELSE {}

\* The orders in which a Python set may be iterated.
Orderings(S) ==
    {s \in [1..Cardinality(S) -> S] : \A i, j \in 1..Cardinality(S) : s[i] = s[j] => i = j}

\* fetch_teams_for_challenge without the status test of lines 49-50.
fetch_teams_for_challenge_AnyStatus(resp, challenge_id, challenge_name) ==
    IF resp.kind = "exception" THEN {<<>>}
    ELSE {[i \in 1..Len(o) |->
             [name |-> o[i], challenge_id |-> challenge_id,
              challenge_name |-> challenge_name]] : o \in Orderings(TeamNamesOf(resp))}

\* The lists fetch_teams_for_challenge may return: one record per name of the
\* set, in any iteration order of the set; the empty list on any failure.
fetch_teams_for_challenge(resp, challenge_id, challenge_name) ==
    IF resp.kind # "ok" THEN {<<>>}
    ELSE {[i \in 1..Len(o) |->
             [name |-> o[i], challenge_id |-> challenge_id,
              challenge_name |-> challenge_name]] : o \in Orderings(TeamNamesOf(resp))}

(***************************************************************************)
(* The aggregation loop of fetch_all_data.  A team is the record of its    *)
(* dict, a project likewise.                                               *)
(***************************************************************************)
\* Lines 88-94: the entry of a team seen for the first time.
NewTeam(time) ==
    [projects |-> <<>>, total_projects |-> 0, completed_projects |-> 0,
     progress |-> 0, last_updated |-> time]

\* Lines 96-100: the project appended for a team record.
ProjectOf(team) ==
    [name |-> team.challenge_name, challenge_id |-> team.challenge_id,
     completed |-> FALSE]

\* Line 95: any(p['challenge_id'] == team['challenge_id'] for p in projects)
HasProject(projects, challenge_id) ==
    \E j \in 1..Len(projects) : projects[j].challenge_id = challenge_id

\* AddProject without the test of line 95.
AddProject_Unguarded(projects, team) == Append(projects, ProjectOf(team))

\* Lines 95-100: the projects of a team after one of its records is seen.
AddProject(projects, team) ==
    IF ~HasProject(projects, team.challenge_id)
    THEN Append(projects, ProjectOf(team))
    ELSE projects

\* Lines 86-100: the body of the inner loop, for one team record.
AddTeamRecord(teams, team, time) ==
    LET known == IF DictHas(teams, team.name) THEN teams
                 ELSE DictSet(teams, team.name, NewTeam(time))
        entry == DictGet(known, team.name)
    IN  DictSet(known, team.name,
                [entry EXCEPT !.projects = AddProject(entry.projects, team)])

\* Lines 85-100: the inner loop over the records of one challenge.
RECURSIVE AddTeamRecords(_, _, _)
AddTeamRecords(teams, records, time) ==
    IF records = <<>> THEN teams
    ELSE AddTeamRecords(AddTeamRecord(teams, Head(records), time), Tail(records), time)

\* Totalled without line 102.
Totalled_Stale(entry) == [entry EXCEPT !.progress = 0]

\* Lines 102-103: one team after the closing loop.
Totalled(entry) ==
    [entry EXCEPT !.total_projects = Len(entry.projects), !.progress = 0]

\* Lines 101-103: the closing loop over all_teams.
SetTotals(teams) ==
    [j \in 1..Len(teams) |-> [k |-> teams[j].k, v |-> Totalled(teams[j].v)]]

(***************************************************************************)
(* get_leaderboard: sorted() is stable, and with reverse=True items with   *)
(* equal keys still keep their original order.                             *)
(***************************************************************************)
\* InsertDescending with the item put before the items of its own key: a
\* sort that is not stable.
RECURSIVE InsertDescending_Unstable(_, _)
InsertDescending_Unstable(sorted, item) ==
    IF sorted = <<>> THEN <<item>>
    ELSE IF Head(sorted).v.total_projects > item.v.total_projects
         THEN <<Head(sorted)>> \o InsertDescending_Unstable(Tail(sorted), item)
         ELSE <<item>> \o sorted

\* One item put in its place in a list already sorted by descending key:
\* after every item whose key is at least its own.
RECURSIVE InsertDescending(_, _)
InsertDescending(sorted, item) ==
    IF sorted = <<>> THEN <<item>>
    ELSE IF Head(sorted).v.total_projects >= item.v.total_projects
         THEN <<Head(sorted)>> \o InsertDescending(Tail(sorted), item)
         ELSE <<item>> \o sorted

RECURSIVE SortedDescending(_)
SortedDescending(items) ==
    IF items = <<>> THEN <<>>
    ELSE InsertDescending(SortedDescending(SubSeq(items, 1, Len(items) - 1)),
                          items[Len(items)])

\* dict(sorted(teams_data.items(), key=total_projects, reverse=True))
get_leaderboard(teams) == SortedDescending(teams)

(***************************************************************************)
(* JSON.  A document is a tree of tagged values: an object is the sequence *)
(* of its members [k, v] as written, so a parser that meets a key twice    *)
(* keeps the last one; json.dump writes a dict's items in order and its    *)
(* str keys as they are.                                                   *)
(***************************************************************************)
JStr(x)  == [t |-> "string", v |-> x]
JNum(x)  == [t |-> "number", v |-> x]
JBool(x) == [t |-> "bool", v |-> x]
JArr(x)  == [t |-> "array", v |-> x]
JObj(x)  == [t |-> "object", v |-> x]
Member(key, val) == [k |-> key, v |-> val]

\* json.load of an object: the member of that name written last.
ObjHas(obj, key) == \E j \in 1..Len(obj.v) : obj.v[j].k = key
ObjGet(obj, key) ==
    obj.v[CHOOSE j \in 1..Len(obj.v) :
            obj.v[j].k = key /\ \A m \in (j + 1)..Len(obj.v) : obj.v[m].k # key].v

\* The dict json.load builds from an object: keys in order of first
\* appearance, each with its last value.
RECURSIVE ObjToDict(_)
ObjToDict(members) ==
    IF members = <<>> THEN EmptyDict
    ELSE LET m == members[Len(members)]
         IN  DictSet(ObjToDict(SubSeq(members, 1, Len(members) - 1)), m.k, m.v)

DumpProject(p) ==
    JObj(<<Member("name", JStr(p.name)),
           Member("challenge_id", JStr(p.challenge_id)),
           Member("completed", JBool(p.completed))>>)

LoadProject(j) ==
    [name |-> ObjGet(j, "name").v, challenge_id |-> ObjGet(j, "challenge_id").v,
     completed |-> ObjGet(j, "completed").v]

DumpTeam(team) ==
    JObj(<<Member("projects",
                  JArr([j \in 1..Len(team.projects) |-> DumpProject(team.projects[j])])),
           Member("total_projects", JNum(team.total_projects)),
           Member("completed_projects", JNum(team.completed_projects)),
           Member("progress", JNum(team.progress)),
           Member("last_updated", JStr(team.last_updated))>>)

LoadTeam(j) ==
    [projects |-> [m \in 1..Len(ObjGet(j, "projects").v) |->
                     LoadProject(ObjGet(j, "projects").v[m])],
     total_projects |-> ObjGet(j, "total_projects").v,
     completed_projects |-> ObjGet(j, "completed_projects").v,
     progress |-> ObjGet(j, "progress").v,
     last_updated |-> ObjGet(j, "last_updated").v]

DumpChallenge(c) ==
    JObj(<<Member("id", JStr(c.id)), Member("name", JStr(c.name)),
           Member("url", JStr(c.url))>>)

LoadChallenge(j) ==
    [id |-> ObjGet(j, "id").v, name |-> ObjGet(j, "name").v, url |-> ObjGet(j, "url").v]

DumpTeams(teams) ==
    JObj([j \in 1..Len(teams) |-> Member(teams[j].k, DumpTeam(teams[j].v))])

LoadTeams(obj) ==
    LET d == ObjToDict(obj.v)
    IN  [j \in 1..Len(d) |-> [k |-> d[j].k, v |-> LoadTeam(d[j].v)]]

DumpChallenges(cs) ==
    JObj([j \in 1..Len(cs) |-> Member(cs[j].k, DumpChallenge(cs[j].v))])

LoadChallenges(obj) ==
    LET d == ObjToDict(obj.v)
    IN  [j \in 1..Len(d) |-> [k |-> d[j].k, v |-> LoadChallenge(d[j].v)]]

(***************************************************************************)
(* save_to_json and load_from_json.  The file is [state, doc]: absent,     *)
(* truncated (opened for writing, nothing flushed yet), written (doc is    *)
(* the document of one json.dump) or corrupt (the bytes of two writers).   *)
(***************************************************************************)
NoDoc == JObj(<<>>)
AbsentFile == [state |-> "absent", doc |-> NoDoc]
TruncatedFile == [state |-> "truncated", doc |-> NoDoc]
CorruptFile == [state |-> "corrupt", doc |-> NoDoc]
WrittenFile(doc) == [state |-> "written", doc |-> doc]

\* Lines 110-114: the dict data.
SaveData(teams, cs, time) ==
    [teams |-> teams, challenges |-> cs, last_updated |-> time]

\* Line 116: the document json.dump writes for data.
JsonDump(d) ==
    JObj(<<Member("teams", DumpTeams(d.teams)),
           Member("challenges", DumpChallenges(d.challenges)),
           Member("last_updated", JStr(d.last_updated))>>)

\* LoadedTeams reading a key the file does not have.
LoadedTeams_WrongKey(doc) ==
    IF ObjHas(doc, "team") THEN LoadTeams(ObjGet(doc, "team")) ELSE EmptyDict

\* Lines 122-123: data.get('teams', {}) and data.get('challenges', {}).
LoadedTeams(doc) ==
    IF ObjHas(doc, "teams") THEN LoadTeams(ObjGet(doc, "teams")) ELSE EmptyDict
LoadedChallenges(doc) ==
    IF ObjHas(doc, "challenges") THEN LoadChallenges(ObjGet(doc, "challenges"))
    ELSE EmptyDict

\* json.load raises on an empty or a garbled file.
Parseable(f) == f.state = "written"

(***************************************************************************)
(* The state.                                                              *)
(***************************************************************************)
VARIABLES
    teams_data,       \* scraper.teams_data
    challenges_data,  \* scraper.challenges_data
    file,             \* teams_data.json
    up,               \* the process runs
    pc,               \* per pass: where its thread stands in fetch_all_data
    challenges,       \* per pass: the local challenges
    idx,              \* per pass: the challenges the outer loop has processed
    all_teams,        \* per pass: the local all_teams
    data,             \* per pass: the local data of save_to_json
    response,         \* the body of the request served by the last step
    \* History, read by the properties only.
    list_ok,          \* per pass: its challenge-list fetch got status 200
    fetched,          \* per pass: per processed challenge, [ok, teams] of its fetch
    alone,            \* per pass: no other pass has run since it started
    prior,            \* per pass: the scraper's mappings when it started
    overlapped,       \* two passes have run at the same time
    origin,           \* the challenge mapping of the pass that made the teams of
                      \* the scraper (mem), of each local data, of the file;
                      \* saved: a save of this run has opened the file
    \* The harness of the functions checked on their own.
    arg,              \* the input the function was called with
    ret,              \* what it has returned or built so far
    at                \* the position of the call

scraper == <<teams_data, challenges_data>>
process == <<up>>
locals == <<challenges, idx, all_teams, data>>
history == <<list_ok, fetched, alone, prior, overlapped, origin>>
harness == <<arg, ret, at>>
vars == <<teams_data, challenges_data, file, up, pc, challenges, idx,
          all_teams, data, response, list_ok, fetched, alone, prior, overlapped,
          origin, arg, ret, at>>

Passes == 1..MaxPasses
Kinds == {"ok", "status", "exception"}
\* The values datetime.now().isoformat() may give.
Times(n) == 0..n
Running(p) == pc[p] \notin {"idle", "done"}

NoData == SaveData(EmptyDict, EmptyDict, 0)
NoPrior == [teams |-> EmptyDict, challenges |-> EmptyDict]
NoResponse == [route |-> "none", teams |-> EmptyDict, challenges |-> EmptyDict]

(***************************************************************************)
(* What the site serves.                                                   *)
(***************************************************************************)
AnchorWeb == [has_href |-> TRUE, href |-> DefisSegment \o <<"1">>, text |-> <<"W","e","b">>]
AnchorJeu == [has_href |-> TRUE, href |-> DefisSegment \o <<"2">>, text |-> <<"J","e","u">>]
ListedAnchors == {AnchorWeb, AnchorJeu}
ListResponses(n) == [kind : Kinds, anchors : SeqsUpTo(ListedAnchors, n)]

ItemTa == [cls |-> TRUE, text |-> <<"T","a">>]
ItemTb == [cls |-> TRUE, text |-> <<" ","T","b"," ">>]
ItemPage == [cls |-> TRUE, text |-> <<"P","a","g","e"," ","2">>]
ItemPlain == [cls |-> FALSE, text |-> <<"T","c">>]
TeamResponses(items) ==
    [kind : Kinds, container : BOOLEAN, items : SeqsUpTo(items, MaxItems)]

\* The running server is served listing pages of at most MaxListed anchors
\* and team pages over ServerItems; a pass checked on its own gets more.
ServerItems == {ItemTa, ItemPage, ItemPlain}
PassItems == {ItemTa, ItemTb, ItemPage}
ServerLists == ListResponses(MaxListed)
ServerPages == TeamResponses(ServerItems)
PassLists == ListResponses(MaxPassListed)
PassPages == TeamResponses(PassItems)

(***************************************************************************)
(* The process: module import (lines 133-134) and __main__ (line 163).     *)
(***************************************************************************)
\* The state of the passes when app.run starts serving: the startup thread
\* is at the top of fetch_all_data, no refresh thread exists.
StartedPc == [p \in Passes |-> IF p = 1 THEN "list" ELSE "idle"]
NoOrigin ==
    [mem |-> EmptyDict, data |-> [p \in Passes |-> EmptyDict], file |-> EmptyDict,
     saved |-> FALSE]

\* A file an earlier run of the program has left: one team in one challenge.
ChallengeWeb == ChallengeOf(AnchorWeb)
EarlierTeams ==
    SetTotals(AddTeamRecord(EmptyDict,
        [name |-> get_text_strip(ItemTa.text), challenge_id |-> ChallengeWeb.id,
         challenge_name |-> ChallengeWeb.name], 0))
EarlierFile == WrittenFile(JsonDump(SaveData(EarlierTeams, ById(<<ChallengeWeb>>), 0)))
InitialFiles == {AbsentFile, EarlierFile}

\* Lines 118-123: what load_from_json leaves in the two mappings.
load_from_json(f, teams, cs) ==
    IF f.state = "absent" THEN [teams |-> teams, challenges |-> cs]
    ELSE [teams |-> LoadedTeams(f.doc), challenges |-> LoadedChallenges(f.doc)]

\* Lines 16-17, 133-134 and 163: a new scraper has loaded the file.
InitServer ==
    /\ file \in InitialFiles
    /\ teams_data = load_from_json(file, EmptyDict, EmptyDict).teams
    /\ challenges_data = load_from_json(file, EmptyDict, EmptyDict).challenges
    /\ up = TRUE
    /\ pc = StartedPc
    /\ challenges = [p \in Passes |-> <<>>]
    /\ idx = [p \in Passes |-> 0]
    /\ all_teams = [p \in Passes |-> EmptyDict]
    /\ data = [p \in Passes |-> NoData]
    /\ response = NoResponse
    /\ list_ok = [p \in Passes |-> FALSE]
    /\ fetched = [p \in Passes |-> <<>>]
    /\ alone = [p \in Passes |-> TRUE]
    /\ prior = [p \in Passes |->
                  IF p = 1 THEN [teams |-> teams_data, challenges |-> challenges_data]
                  ELSE NoPrior]
    /\ overlapped = FALSE
    /\ origin = [NoOrigin EXCEPT !.mem = challenges_data, !.file = challenges_data]

Init == InitServer /\ arg = <<>> /\ ret = <<>> /\ at = "server"

\* The process is killed: its threads and its memory are gone, the file is
\* what it was.
Kill ==
    /\ up
    /\ up' = FALSE
    /\ teams_data' = EmptyDict
    /\ challenges_data' = EmptyDict
    /\ pc' = [p \in Passes |-> "idle"]
    /\ challenges' = [p \in Passes |-> <<>>]
    /\ idx' = [p \in Passes |-> 0]
    /\ all_teams' = [p \in Passes |-> EmptyDict]
    /\ data' = [p \in Passes |-> NoData]
    /\ response' = NoResponse
    /\ list_ok' = [p \in Passes |-> FALSE]
    /\ fetched' = [p \in Passes |-> <<>>]
    /\ alone' = [p \in Passes |-> TRUE]
    /\ prior' = [p \in Passes |-> NoPrior]
    /\ origin' = [origin EXCEPT !.mem = EmptyDict, !.data = [p \in Passes |-> EmptyDict]]
    /\ UNCHANGED <<file, overlapped, harness>>

(***************************************************************************)
(* The routes.                                                             *)
(***************************************************************************)
\* Lines 150-155: a thread is started on fetch_all_data.
api_refresh ==
    /\ up
    /\ \E p \in Passes :
        /\ pc[p] = "idle"
        /\ \A q \in Passes : q < p => pc[q] # "idle"
        /\ pc' = [pc EXCEPT ![p] = "list"]
        /\ alone' = [q \in Passes |->
                       IF q = p THEN \A r \in Passes : ~Running(r)
                       ELSE IF Running(q) THEN FALSE ELSE alone[q]]
        /\ overlapped' = (overlapped \/ \E r \in Passes : Running(r))
        /\ prior' = [prior EXCEPT ![p] =
                       [teams |-> teams_data, challenges |-> challenges_data]]
    /\ response' = NoResponse
    /\ UNCHANGED <<scraper, file, process, locals, list_ok, fetched, origin, harness>>

\* Lines 146-148: the mappings as they are in memory.
api_teams ==
    /\ up
    /\ response' = [route |-> "teams", teams |-> teams_data,
                    challenges |-> challenges_data]
    /\ UNCHANGED <<scraper, file, process, pc, locals, history, harness>>

(***************************************************************************)
(* fetch_all_data, one action per stretch of code between two points where *)
(* another thread can see or change what it shares.                        *)
(***************************************************************************)
\* FetchChallengesList without the assignment of line 81.
FetchChallengesList_Unassigned(p, responses) ==
    /\ up /\ pc[p] = "list"
    /\ \E resp \in responses :
        /\ challenges' = [challenges EXCEPT ![p] = fetch_challenges_list(resp)]
        /\ list_ok' = [list_ok EXCEPT ![p] = resp.kind = "ok"]
    /\ all_teams' = [all_teams EXCEPT ![p] = EmptyDict]
    /\ idx' = [idx EXCEPT ![p] = 0]
    /\ pc' = [pc EXCEPT ![p] = "loop"]
    /\ response' = NoResponse
    /\ UNCHANGED <<scraper, file, process, data, fetched, alone, prior,
                   overlapped, origin, harness>>

\* Lines 80-82.
FetchChallengesList(p, responses) ==
    /\ up /\ pc[p] = "list"
    /\ \E resp \in responses :
        /\ challenges' = [challenges EXCEPT ![p] = fetch_challenges_list(resp)]
        /\ list_ok' = [list_ok EXCEPT ![p] = resp.kind = "ok"]
    /\ challenges_data' = ById(challenges'[p])
    /\ all_teams' = [all_teams EXCEPT ![p] = EmptyDict]
    /\ idx' = [idx EXCEPT ![p] = 0]
    /\ pc' = [pc EXCEPT ![p] = "loop"]
    /\ response' = NoResponse
    /\ UNCHANGED <<teams_data, file, process, data, fetched, alone, prior,
                   overlapped, origin, harness>>

\* Lines 83-100, one iteration of the outer loop.
FetchTeams(p, responses, times) ==
    /\ up /\ pc[p] = "loop" /\ idx[p] < Len(challenges[p])
    /\ LET challenge == challenges[p][idx[p] + 1]
       IN  \E resp \in responses, time \in times :
             \E teams \in fetch_teams_for_challenge(resp, challenge.id, challenge.name) :
                /\ all_teams' = [all_teams EXCEPT ![p] = AddTeamRecords(@, teams, time)]
                /\ fetched' = [fetched EXCEPT ![p] =
                                 Append(@, [ok |-> resp.kind = "ok", teams |-> teams])]
    /\ idx' = [idx EXCEPT ![p] = @ + 1]
    /\ response' = NoResponse
    /\ UNCHANGED <<scraper, file, process, pc, challenges, data, list_ok,
                   alone, prior, overlapped, origin, harness>>

\* dict.update: the items of new over those of old.
RECURSIVE Updated(_, _)
Updated(old, new) ==
    IF new = <<>> THEN old
    ELSE Updated(DictSet(old, Head(new).k, Head(new).v), Tail(new))

\* AssignTeams merging the pass's teams into teams_data.
AssignTeams_Merging(p) ==
    /\ up /\ pc[p] = "loop" /\ idx[p] = Len(challenges[p])
    /\ all_teams' = [all_teams EXCEPT ![p] = SetTotals(@)]
    /\ teams_data' = Updated(teams_data, all_teams'[p])
    /\ pc' = [pc EXCEPT ![p] = "save"]
    /\ origin' = [origin EXCEPT !.mem = ById(challenges[p])]
    /\ response' = NoResponse
    /\ UNCHANGED <<challenges_data, file, process, challenges, idx, data,
                   list_ok, fetched, alone, prior, overlapped, harness>>

\* AssignTeams without the assignment of line 104.
AssignTeams_Unassigned(p) ==
    /\ up /\ pc[p] = "loop" /\ idx[p] = Len(challenges[p])
    /\ all_teams' = [all_teams EXCEPT ![p] = SetTotals(@)]
    /\ pc' = [pc EXCEPT ![p] = "save"]
    /\ response' = NoResponse
    /\ UNCHANGED <<scraper, file, process, challenges, idx, data,
                   list_ok, fetched, alone, prior, overlapped, origin, harness>>

\* Lines 101-104, once the outer loop is over.
AssignTeams(p) ==
    /\ up /\ pc[p] = "loop" /\ idx[p] = Len(challenges[p])
    /\ all_teams' = [all_teams EXCEPT ![p] = SetTotals(@)]
    /\ teams_data' = all_teams'[p]
    /\ pc' = [pc EXCEPT ![p] = "save"]
    /\ origin' = [origin EXCEPT !.mem = ById(challenges[p])]
    /\ response' = NoResponse
    /\ UNCHANGED <<challenges_data, file, process, challenges, idx, data,
                   list_ok, fetched, alone, prior, overlapped, harness>>

\* Lines 110-114.
SaveBuild(p, times) ==
    /\ up /\ pc[p] = "save"
    /\ \E time \in times :
         data' = [data EXCEPT ![p] = SaveData(teams_data, challenges_data, time)]
    /\ pc' = [pc EXCEPT ![p] = "open"]
    /\ origin' = [origin EXCEPT !.data[p] = origin.mem]
    /\ response' = NoResponse
    /\ UNCHANGED <<scraper, file, process, challenges, idx, all_teams,
                   list_ok, fetched, alone, prior, overlapped, harness>>

\* Line 115: open(..., 'w') creates or truncates the file.
SaveOpen(p) ==
    /\ up /\ pc[p] = "open"
    /\ file' = TruncatedFile
    /\ pc' = [pc EXCEPT ![p] = "dump"]
    /\ origin' = [origin EXCEPT !.file = EmptyDict, !.saved = TRUE]
    /\ response' = NoResponse
    /\ UNCHANGED <<scraper, process, locals, list_ok, fetched, alone, prior,
                   overlapped, harness>>

\* Line 116 and the end of the with block.  The handle writes from offset 0:
\* onto a file still empty the result is the document; onto what another
\* handle has written since, it is the document or a mix of the two.
SaveDump(p) ==
    /\ up /\ pc[p] = "dump"
    /\ \/ /\ file' = WrittenFile(JsonDump(data[p]))
          /\ origin' = [origin EXCEPT !.file = origin.data[p]]
       \/ /\ file.state # "truncated"
          /\ file' = CorruptFile
          /\ origin' = [origin EXCEPT !.file = EmptyDict]
    /\ pc' = [pc EXCEPT ![p] = "return"]
    /\ response' = NoResponse
    /\ UNCHANGED <<scraper, process, locals, list_ok, fetched, alone, prior,
                   overlapped, harness>>

\* Lines 106-107: the thread ends.
Return(p) ==
    /\ up /\ pc[p] = "return"
    /\ pc' = [pc EXCEPT ![p] = "done"]
    /\ challenges' = [challenges EXCEPT ![p] = <<>>]
    /\ idx' = [idx EXCEPT ![p] = 0]
    /\ all_teams' = [all_teams EXCEPT ![p] = EmptyDict]
    /\ data' = [data EXCEPT ![p] = NoData]
    /\ list_ok' = [list_ok EXCEPT ![p] = FALSE]
    /\ fetched' = [fetched EXCEPT ![p] = <<>>]
    /\ prior' = [prior EXCEPT ![p] = NoPrior]
    /\ origin' = [origin EXCEPT !.data[p] = EmptyDict]
    /\ response' = NoResponse
    /\ UNCHANGED <<scraper, file, process, alone, overlapped, harness>>

Next ==
    \/ Kill
    \/ api_refresh
    \/ api_teams
    \/ \E p \in Passes : FetchChallengesList(p, ServerLists)
    \/ \E p \in Passes : FetchTeams(p, ServerPages, Times(MaxServerTime))
    \/ \E p \in Passes : AssignTeams(p)
    \/ \E p \in Passes : SaveBuild(p, Times(MaxServerTime))
    \/ \E p \in Passes : SaveOpen(p)
    \/ \E p \in Passes : SaveDump(p)
    \/ \E p \in Passes : Return(p)

Spec == Init /\ [][Next]_vars

(***************************************************************************)
(* One pass on its own: the startup thread, with no refresh and no read,   *)
(* served larger pages.                                                    *)
(***************************************************************************)
NextPass ==
    \/ FetchChallengesList(1, PassLists)
    \/ FetchTeams(1, PassPages, Times(MaxTime))
    \/ AssignTeams(1)
    \/ SaveBuild(1, Times(MaxTime))
    \/ SaveOpen(1)
    \/ SaveDump(1)
    \/ Return(1)

SpecPass == Init /\ [][NextPass]_vars

(***************************************************************************)
(* The functions on their own: no process runs, the function is called on  *)
(* an input drawn in the initial state.                                    *)
(***************************************************************************)
NoThreads ==
    /\ up = FALSE
    /\ pc = [p \in Passes |-> "idle"]
    /\ challenges = [p \in Passes |-> <<>>]
    /\ idx = [p \in Passes |-> 0]
    /\ all_teams = [p \in Passes |-> EmptyDict]
    /\ data = [p \in Passes |-> NoData]
    /\ response = NoResponse
    /\ list_ok = [p \in Passes |-> FALSE]
    /\ fetched = [p \in Passes |-> <<>>]
    /\ alone = [p \in Passes |-> TRUE]
    /\ prior = [p \in Passes |-> NoPrior]
    /\ overlapped = FALSE
    /\ origin = NoOrigin
threads == <<up, pc, challenges, idx, all_teams, data, response, list_ok, fetched,
             alone, prior, overlapped, origin>>

\* fetch_challenges_list on any listing page.
AnchorWebAbsolute ==
    [has_href |-> TRUE, href |-> base_url \o DefisSegment \o <<"1">>, text |-> <<" ","W","e","b"," ","2"," ">>]
AnchorVoir == [has_href |-> TRUE, href |-> DefisSegment \o <<"2">>, text |-> <<"V","o","i","r">>]
AnchorListe == [has_href |-> TRUE, href |-> DefisSegment \o <<"l","i","s","t","e">>, text |-> <<"L","i","s","t","e">>]
AnchorOther == [has_href |-> TRUE, href |-> <<"/","e","q","u","i","p","e","s","/","3">>, text |-> <<"E","q","u","i","p","e","s">>]
AnchorNoHref == [has_href |-> FALSE, href |-> <<>>, text |-> <<"J","e","u">>]
ParseAnchors ==
    {AnchorWeb, AnchorWebAbsolute, AnchorJeu, AnchorVoir, AnchorListe, AnchorOther,
     AnchorNoHref}

InitParse ==
    /\ NoThreads
    /\ teams_data = EmptyDict /\ challenges_data = EmptyDict /\ file = AbsentFile
    /\ arg \in [kind : Kinds, anchors : SeqsUpTo(ParseAnchors, MaxAnchors)]
    /\ ret = <<>>
    /\ at = "call"

CallFetchChallengesList ==
    /\ at = "call"
    /\ ret' = fetch_challenges_list(arg)
    /\ at' = "returned"
    /\ UNCHANGED <<scraper, file, threads, arg>>

SpecParse == InitParse /\ [][CallFetchChallengesList]_vars

\* The inner loop of fetch_all_data (lines 85-100) on any team records.
RecordNames == {get_text_strip(ItemTa.text), get_text_strip(ItemTb.text)}
LoopRecords ==
    [name : RecordNames, challenge_id : {<<"1">>, <<"2">>},
     challenge_name : {get_text_strip(AnchorWeb.text), get_text_strip(AnchorJeu.text)}]

InitLoop ==
    /\ NoThreads
    /\ teams_data = EmptyDict /\ challenges_data = EmptyDict /\ file = AbsentFile
    /\ arg \in SeqsUpTo(LoopRecords, MaxRecords)
    /\ ret = EmptyDict
    /\ at = 0

LoopStep ==
    /\ at < Len(arg)
    /\ \E time \in Times(MaxTime) : ret' = AddTeamRecord(ret, arg[at + 1], time)
    /\ at' = at + 1
    /\ UNCHANGED <<scraper, file, threads, arg>>

SpecLoop == InitLoop /\ [][LoopStep]_vars

\* get_leaderboard on any team mapping.
BoardNames == {<<"T","a">>, <<"T","b">>, <<"T","c">>, <<"T","d">>}
BoardProjects ==
    <<[name |-> get_text_strip(AnchorWeb.text), challenge_id |-> <<"1">>, completed |-> FALSE],
      [name |-> get_text_strip(AnchorJeu.text), challenge_id |-> <<"2">>, completed |-> FALSE]>>
BoardTeam(n) ==
    [projects |-> SubSeq(BoardProjects, 1, n), total_projects |-> n,
     completed_projects |-> 0, progress |-> 0, last_updated |-> 0]
BoardInputs ==
    {d \in SeqsUpTo([k : BoardNames, v : {BoardTeam(n) : n \in 0..2}], MaxTeams) :
        IsDict(d)}

InitBoard ==
    /\ NoThreads
    /\ teams_data \in BoardInputs
    /\ challenges_data = EmptyDict /\ file = AbsentFile
    /\ arg = <<>>
    /\ ret = <<>>
    /\ at = "call"

CallGetLeaderboard ==
    /\ at = "call"
    /\ ret' = get_leaderboard(teams_data)
    /\ at' = "returned"
    /\ UNCHANGED <<scraper, file, threads, arg>>

SpecBoard == InitBoard /\ [][CallGetLeaderboard]_vars

\* save_to_json, then load_from_json, by the same scraper or by a new one.
StoredTeam ==
    {Totalled([NewTeam(time) EXCEPT !.projects = projects]) :
        time \in Times(MaxTime),
        projects \in {s \in SeqsUpTo(Range(BoardProjects), 2) : Len(s) < 2 \/ s[1] # s[2]}}
StoredTeams ==
    {d \in SeqsUpTo([k : RecordNames, v : StoredTeam], MaxStored) : IsDict(d)}
StoredChallenges ==
    {ById(cs) : cs \in SeqsUpTo({ChallengeOf(AnchorWeb), ChallengeOf(AnchorJeu),
                                  ChallengeOf(AnchorWebAbsolute)}, MaxStored)}

InitStore ==
    /\ NoThreads
    /\ teams_data \in StoredTeams
    /\ challenges_data \in StoredChallenges
    /\ file \in InitialFiles
    /\ arg = <<>>
    /\ ret = <<>>
    /\ at = "call"

\* Lines 109-116, run with no other thread about.
save_to_json ==
    /\ at = "call"
    /\ \E time \in Times(MaxTime) :
         file' = WrittenFile(JsonDump(SaveData(teams_data, challenges_data, time)))
    /\ arg' = [teams |-> teams_data, challenges |-> challenges_data]
    /\ at' = "saved"
    /\ UNCHANGED <<scraper, threads, ret>>

\* Lines 16-17: a new scraper, as the next start of the program makes.
NewScraper ==
    /\ at = "saved"
    /\ teams_data' = EmptyDict
    /\ challenges_data' = EmptyDict
    /\ at' = "new"
    /\ UNCHANGED <<file, threads, arg, ret>>

CallLoadFromJson ==
    /\ at \in {"saved", "new"}
    /\ teams_data' = load_from_json(file, teams_data, challenges_data).teams
    /\ challenges_data' = load_from_json(file, teams_data, challenges_data).challenges
    /\ at' = "loaded"
    /\ UNCHANGED <<file, threads, arg, ret>>

NextStore == save_to_json \/ NewScraper \/ CallLoadFromJson

SpecStore == InitStore /\ [][NextStore]_vars

(***************************************************************************)
(* Properties.                                                             *)
(***************************************************************************)
\* C1: in the team mapping the aggregation loop builds, no team has two
\* projects with the same challenge id, whatever team records it is handed
\* (the same team twice for the same challenge included).
C1_OneProjectPerChallenge ==
    \A j \in 1..Len(ret) :
        \A a, b \in 1..Len(ret[j].v.projects) :
            ret[j].v.projects[a].challenge_id = ret[j].v.projects[b].challenge_id
                => a = b

\* The loop has been handed the same team twice for the same challenge.
C1_Witness ==
    /\ at = Len(arg)
    /\ \E a, b \in 1..Len(arg) :
        /\ a < b
        /\ arg[a].name = arg[b].name
        /\ arg[a].challenge_id = arg[b].challenge_id
    /\ \E j \in 1..Len(ret) : Len(ret[j].v.projects) = 2

\* C2: when a pass that has run alone is through its save, teams_data is
\* the mapping that pass built and challenges_data is that pass's challenge
\* mapping; a team or challenge of the state before the pass that the pass
\* did not scrape is gone.
C2_FullReplace ==
    \A p \in Passes :
        pc[p] = "return" /\ alone[p] =>
            /\ teams_data = all_teams[p]
            /\ challenges_data = ById(challenges[p])
            /\ \A name \in DictKeys(prior[p].teams) \ DictKeys(all_teams[p]) :
                  ~DictHas(teams_data, name)
            /\ \A id \in DictKeys(prior[p].challenges) \ DictKeys(ById(challenges[p])) :
                  ~DictHas(challenges_data, id)

\* A pass that ran alone is through, and a team and a challenge of the state
\* before it are gone while another challenge has come.
C2_Witness ==
    \E p \in Passes :
        /\ pc[p] = "return" /\ alone[p]
        /\ DictKeys(prior[p].teams) \ DictKeys(teams_data) # {}
        /\ DictKeys(prior[p].challenges) \ DictKeys(challenges_data) # {}
        /\ challenges_data # EmptyDict

\* Pass 1 is past its outer loop.
PastLoop == pc[1] \in {"save", "open", "dump", "return"}

\* C3 (what the pass holds once past its loop): every challenge was
\* processed; a challenge whose team fetch failed gave no team record and no
\* team has a project for it; every team record of every fetch is in the
\* result with a project for its challenge.
C3_FailedFetchGivesNothing ==
    PastLoop =>
        /\ Len(fetched[1]) = Len(challenges[1])
        /\ \A j \in 1..Len(fetched[1]) :
            /\ ~fetched[1][j].ok =>
                /\ fetched[1][j].teams = <<>>
                /\ \A m \in 1..Len(all_teams[1]) :
                      ~HasProject(all_teams[1][m].v.projects, challenges[1][j].id)
            /\ \A m \in 1..Len(fetched[1][j].teams) :
                LET name == fetched[1][j].teams[m].name
                IN  /\ DictHas(all_teams[1], name)
                    /\ HasProject(DictGet(all_teams[1], name).projects,
                                  challenges[1][j].id)

\* A team fetch of the pass has failed and the loop is not over.
FailedInLoop ==
    /\ pc[1] = "loop"
    /\ \E j \in 1..Len(fetched[1]) : ~fetched[1][j].ok

\* C3: a failed team fetch gives no team record and stops nothing: the pass
\* processes every other challenge, keeps their teams, and gets through its
\* save.
C3_PassSurvivesFailedFetch ==
    /\ []C3_FailedFetchGivesNothing
    /\ (FailedInLoop ~> pc[1] = "return")

\* The pass is through its save; one team fetch failed, another gave teams.
C3_Witness ==
    /\ pc[1] = "return"
    /\ file.state = "written"
    /\ \E j, m \in 1..Len(fetched[1]) :
        /\ ~fetched[1][j].ok
        /\ fetched[1][m].teams # <<>>
    /\ all_teams[1] # EmptyDict

SpecPassFair == SpecPass /\ WF_vars(NextPass)

\* C4: a read of /api/teams served while a pass that runs alone is between
\* its assignment of challenges_data and its assignment of teams_data
\* returns the new pass's challenges with the teams of the state before the
\* pass.
C4_ReadDuringPass ==
    \A p \in Passes :
        response.route = "teams" /\ pc[p] = "loop" /\ alone[p] =>
            /\ response.challenges = ById(challenges[p])
            /\ response.teams = prior[p].teams

\* A torn read: the response holds a team whose project is for a challenge
\* the response's challenges do not have, the previous state's challenges
\* having been replaced.
C4_Witness ==
    \E p \in Passes :
        /\ response.route = "teams" /\ pc[p] = "loop" /\ alone[p]
        /\ response.challenges # prior[p].challenges
        /\ response.challenges # EmptyDict
        /\ \E m \in 1..Len(response.teams) :
            \E n \in 1..Len(response.teams[m].v.projects) :
                ~DictHas(response.challenges,
                         response.teams[m].v.projects[n].challenge_id)

\* The file is what it was when the process started.
FileInitial == file \in InitialFiles /\ ~origin.saved
\* The file is the output of one completed save whose teams and challenges
\* were made by one same pass.
FileOfOnePass ==
    /\ file.state = "written"
    /\ origin.saved
    /\ LoadedChallenges(file.doc) = origin.file
\* A save has opened the file and has not (or never) finished writing it.
FileBeingWritten == file.state = "truncated"

\* C5 as claimed: in every reachable state, overlapping passes included, the
\* file (outside a save's own write) is as it was initially or the output
\* of one completed save whose two mappings come from one same pass.
C5_Original == ~FileBeingWritten => FileInitial \/ FileOfOnePass

\* C5 amended: the same as long as no two passes have overlapped.
C5_SnapshotUnlessOverlap ==
    ~overlapped /\ ~FileBeingWritten => FileInitial \/ FileOfOnePass

\* No two passes have overlapped, the second pass has saved over an earlier
\* file, and the process has since been killed.
C5_Witness ==
    /\ ~overlapped
    /\ ~up
    /\ file.state = "written"
    /\ origin.saved
    /\ file # EarlierFile
    /\ LoadedTeams(file.doc) # EmptyDict

\* C6: save_to_json followed by load_from_json on the unmodified file leaves
\* teams_data and challenges_data what they were before the save.
C6_RoundTrip ==
    at = "loaded" => teams_data = arg.teams /\ challenges_data = arg.challenges

\* Two teams and two challenges have been saved and loaded.
C6_Witness ==
    /\ at = "loaded"
    /\ Len(teams_data) = 2
    /\ Len(challenges_data) = 2
    /\ \E j \in 1..Len(teams_data) : Len(teams_data[j].v.projects) = 2

\* C7: get_leaderboard returns exactly the entries of teams_data, by
\* non-increasing total_projects, entries of equal total_projects in the
\* order they have in teams_data.
C7_Leaderboard ==
    at = "returned" =>
        /\ Len(ret) = Len(teams_data)
        /\ Range(ret) = Range(teams_data)
        /\ \A a, b \in 1..Len(ret) :
            a < b =>
                /\ ret[a].v.total_projects >= ret[b].v.total_projects
                /\ ret[a].v.total_projects = ret[b].v.total_projects =>
                      DictIndex(teams_data, ret[a].k) < DictIndex(teams_data, ret[b].k)

\* Three teams, two of them tied and ahead of neither in the mapping: the
\* leaderboard moves a later team before them.
C7_Witness ==
    /\ at = "returned"
    /\ Len(ret) = 3
    /\ teams_data[1].v.total_projects = teams_data[2].v.total_projects
    /\ teams_data[3].v.total_projects > teams_data[1].v.total_projects

\* The qualifying anchors of the listing page handed to the parser.
QualifyingAt == {a \in 1..Len(arg.anchors) : Qualifies(arg.anchors[a])}
AnchorId(a) == LastSegment(arg.anchors[a].href)
FirstWithId(id) ==
    CHOOSE a \in QualifyingAt :
        AnchorId(a) = id /\ \A b \in QualifyingAt : AnchorId(b) = id => a <= b
LastWithId(id) ==
    CHOOSE a \in QualifyingAt :
        AnchorId(a) = id /\ \A b \in QualifyingAt : AnchorId(b) = id => b <= a

\* C8: fetch_challenges_list returns one challenge per distinct id of the
\* qualifying anchors, with the name of the last qualifying anchor of that
\* id, the challenges in the order in which their ids first appear.
C8_OnePerIdLastNameFirstPlace ==
    at = "returned" /\ arg.kind = "ok" =>
        /\ Len(ret) = Cardinality({AnchorId(a) : a \in QualifyingAt})
        /\ \A j \in 1..Len(ret) :
            /\ ret[j].id \in {AnchorId(a) : a \in QualifyingAt}
            /\ ret[j].name = get_text_strip(arg.anchors[LastWithId(ret[j].id)].text)
        /\ \A j, m \in 1..Len(ret) :
            j < m =>
                /\ ret[j].id # ret[m].id
                /\ FirstWithId(ret[j].id) < FirstWithId(ret[m].id)

\* An id comes twice under two names with another id between.
C8_Witness ==
    /\ at = "returned" /\ arg.kind = "ok"
    /\ Len(ret) = 2
    /\ \E a, b, c \in QualifyingAt :
        /\ a < b /\ b < c
        /\ AnchorId(a) = AnchorId(c)
        /\ AnchorId(a) # AnchorId(b)
        /\ get_text_strip(arg.anchors[a].text) # get_text_strip(arg.anchors[c].text)

\* The challenges of the pass whose returned team list held that name.
ChallengesWith(name) ==
    {challenges[1][j].id : j \in {m \in 1..Len(fetched[1]) :
        \E r \in 1..Len(fetched[1][m].teams) : fetched[1][m].teams[r].name = name}}

\* C9: once the pass has built its mapping, every team in it has
\* total_projects equal to the length of its projects, which is the number
\* of distinct challenges of the pass whose team list held the team's name,
\* and is at least 1.
C9_TotalProjects ==
    PastLoop =>
        \A m \in 1..Len(all_teams[1]) :
            /\ all_teams[1][m].v.total_projects = Len(all_teams[1][m].v.projects)
            /\ Len(all_teams[1][m].v.projects) =
                  Cardinality(ChallengesWith(all_teams[1][m].k))
            /\ all_teams[1][m].v.total_projects >= 1

\* A pass is through with one team in two challenges and another in one.
C9_Witness ==
    /\ pc[1] = "return"
    /\ \E m, n \in 1..Len(all_teams[1]) :
        /\ all_teams[1][m].v.total_projects = 2
        /\ all_teams[1][n].v.total_projects = 1

\* What C10 says of a pass whose challenge-list fetch has failed, once it is
\* through its save.
EmptyEverywhere ==
    /\ teams_data = EmptyDict
    /\ challenges_data = EmptyDict
    /\ file.state = "written"
    /\ LoadedTeams(file.doc) = EmptyDict
    /\ LoadedChallenges(file.doc) = EmptyDict

\* C10 as claimed: a pass whose challenge-list fetch failed completes with
\* both mappings empty in memory and in the file.
C10_Original ==
    \A p \in Passes : pc[p] = "return" /\ ~list_ok[p] => EmptyEverywhere

\* C10 amended: so it is for a pass that runs alone.
C10_EmptyPassWhenAlone ==
    \A p \in Passes : pc[p] = "return" /\ ~list_ok[p] /\ alone[p] => EmptyEverywhere

\* A pass that ran alone failed to fetch the list and is through its save;
\* the state before it held a team and a challenge.
C10_Witness ==
    \E p \in Passes :
        /\ pc[p] = "return" /\ ~list_ok[p] /\ alone[p]
        /\ prior[p].teams # EmptyDict
        /\ prior[p].challenges # EmptyDict
        /\ file.state = "written"

====
